---- MODULE Spec2Model ----
(***************************************************************************)
(* Model of src/src/github/operations/files.ts: the multi-file push        *)
(* pipeline pushFiles (read ref -> createTree -> createCommit ->           *)
(* updateReference) run by several concurrent callers against one remote   *)
(* repository.                                                             *)
(*                                                                         *)
(* Every remote call is three steps: the caller issues the request (req),  *)
(* the remote serves it atomically (resp), the caller's continuation       *)
(* resumes after the await.  Between those steps any other push may run.   *)
(*                                                                         *)
(* Spec        concurrent pushFiles invocations                            *)
(* SpecRetry   a failed pushFiles run again by its caller, one at a time   *)
(* SpecFile    one createOrUpdateFile invocation (content resolution,      *)
(*             pre-read of the file's sha, write)                          *)
(* SpecDecode  decodeHTMLEntities applied to one string                    *)
(***************************************************************************)
EXTENDS Integers, Sequences, FiniteSets, TLC

(* ------------------------------ bounds -------------------------------- *)

\* number of pushFiles invocations
NPush == 2
\* longest files array handed to one pushFiles invocation
MaxFiles == 2

Pushes == 1..NPush

(* ------------------------------ inputs -------------------------------- *)

\* paths and contents a caller may put into a FileOperation
Paths == {"a.txt", "b.txt"}
Contents == {"X", "Y"}
\* "keep.txt" is on the branch from the start and is never edited
AllPaths == Paths \cup {"keep.txt"}
Absent == "absent"
\* the branch that exists, and one that does not
Branches == {"main", "nobranch"}
Message == "msg"

\* the FileOperations a caller passes: a.txt (on the branch already) with either
\* content, b.txt (not on the branch) with one
FileOperation == {f \in [path : Paths, content : Contents] : f.path = "b.txt" => f.content = "Y"}
FileLists == UNION {[1..n -> FileOperation] : n \in 0..MaxFiles}

(* --------------------------- remote objects --------------------------- *)

NoSha == 0
NoTree == [q \in AllPaths |-> Absent]

TreeObject(entries) ==
    [type |-> "tree", entries |-> entries, tree |-> NoSha, parents |-> << >>,
     message |-> ""]
CommitObject(tree, parents, message) ==
    [type |-> "commit", entries |-> NoTree, tree |-> tree, parents |-> parents,
     message |-> message]

\* the repository before any push: one commit C0 on main, holding a.txt and keep.txt
Tree0 == [q \in AllPaths |-> IF q = "b.txt" THEN Absent ELSE "O"]
InitObjects == << TreeObject(Tree0), CommitObject(1, << >>, "init") >>
C0 == Len(InitObjects)

(* ------------------------------- state -------------------------------- *)

VARIABLES
    \* remote repository
    refs,        \* branch name -> commit sha the reference points at (NoSha: no such ref)
    objects,     \* the object store: sha n names objects[n]
    \* one pushFiles invocation per p \in Pushes
    pc,          \* "idle", the step being awaited, "Done" or "Failed"
    args,        \* [branch, files, message] the caller passed
    commitSha,   \* const commitSha = ref.object.sha
    tree,        \* const tree = await createTree(...)
    commit,      \* const commit = await createCommit(...)
    req,         \* the request this push has outstanding
    resp,        \* the remote's answer to it, not yet consumed by the continuation
    result,      \* what pushFiles returned or threw
    calls,       \* per push, the issue / return events of its remote calls, in order
    \* history of the remote, kept to state the properties
    served,      \* per push, the requests the remote answered and how
    clock,       \* counts the reference operations the remote has run
    startAt,     \* clock value when the push was invoked
    readAt,      \* clock value of the push's reference read (0: none)
    updAt,       \* clock value of the push's applied reference update (0: none)
    headRead,    \* the sha the remote returned to the push's reference read
    created,     \* the sha of the commit the remote created for the push
    fault,       \* the transport failed or garbled one of the push's calls
    \* one createOrUpdateFile invocation and the file it writes
    repoFile,    \* the remote's entry at the path on the branch
    fpc,         \* "idle", the call being awaited ("Fetch", "Read", "Write"), "Done", "Failed"
    fargs,       \* the arguments the caller passed (optional ones present or not)
    fileContent, \* let fileContent: string
    currentSha,  \* let currentSha = sha
    freq,        \* the network call createOrUpdateFile has outstanding
    fresp,       \* the answer to it, not yet consumed by the continuation
    fresult,     \* what createOrUpdateFile returned or threw
    fserved,     \* the calls answered so far, each with its answer, in order
    \* one decodeHTMLEntities application
    str,         \* the argument
    decoded      \* the value returned (NotDecoded: not applied yet)

remoteVars == <<refs, objects>>
localVars == <<pc, args, commitSha, tree, commit, req, resp, result, calls>>
ghostVars == <<served, clock, startAt, readAt, updAt, headRead, created, fault>>
pushVars == <<remoteVars, localVars, ghostVars>>
fileVars == <<repoFile, fpc, fargs, fileContent, currentSha, freq, fresp, fresult, fserved>>
decodeVars == <<str, decoded>>
vars == <<refs, objects, pc, args, commitSha, tree, commit, req, resp, result, calls,
          served, clock, startAt, readAt, updAt, headRead, created, fault,
          repoFile, fpc, fargs, fileContent, currentSha, freq, fresp, fresult, fserved,
          str, decoded>>

NoReq == [method |-> "none"]
NoResp == [kind |-> "none"]
NoArgs == [branch |-> "main", files |-> << >>, message |-> ""]
NoResult == [kind |-> "none"]
NoDesc == [sha |-> NoSha]

\* no push invoked yet
PushInit ==
    /\ refs = [b \in Branches |-> IF b = "main" THEN C0 ELSE NoSha]
    /\ objects = InitObjects
    /\ pc = [p \in Pushes |-> "idle"]
    /\ args = [p \in Pushes |-> NoArgs]
    /\ commitSha = [p \in Pushes |-> NoSha]
    /\ tree = [p \in Pushes |-> NoDesc]
    /\ commit = [p \in Pushes |-> NoDesc]
    /\ req = [p \in Pushes |-> NoReq]
    /\ resp = [p \in Pushes |-> NoResp]
    /\ result = [p \in Pushes |-> NoResult]
    /\ calls = [p \in Pushes |-> << >>]
    /\ served = [p \in Pushes |-> << >>]
    /\ clock = 0
    /\ startAt = [p \in Pushes |-> 0]
    /\ readAt = [p \in Pushes |-> 0]
    /\ updAt = [p \in Pushes |-> 0]
    /\ headRead = [p \in Pushes |-> NoSha]
    /\ created = [p \in Pushes |-> NoSha]
    /\ fault = [p \in Pushes |-> FALSE]

(* ------------------------ files.ts: the requests ---------------------- *)

Pipeline == <<"ReadHead", "BuildTree", "BuildCommit", "UpdateRef">>

\* faulty variant of TreeEntries: a path listed twice is sent once, with its last content
TreeEntriesDedup(files) ==
    LET keep == {i \in 1..Len(files) : \A j \in (i + 1)..Len(files) : files[j].path # files[i].path}
        Nth[n \in 0..Len(files)] ==
            IF n = 0 THEN << >>
            ELSE IF n \in keep
                 THEN Append(Nth[n - 1], [path |-> files[n].path, mode |-> "100644",
                                          type |-> "blob", content |-> files[n].content])
                 ELSE Nth[n - 1]
    IN Nth[Len(files)]

\* files.map((file) => ({path, mode: "100644", type: "blob", content}))
TreeEntries(files) ==
    [i \in 1..Len(files) |->
        [path |-> files[i].path, mode |-> "100644", type |-> "blob",
         content |-> files[i].content]]

\* faulty variant of createTree: base_tree is left out of the body
createTreeNoBase(files, baseTree) ==
    [method |-> "POST", url |-> <<"git/trees">>,
     body |-> [tree |-> TreeEntries(files), base_tree |-> NoSha]]

\* faulty variant of createTree: only the first file is sent
createTreeFirstOnly(files, baseTree) ==
    [method |-> "POST", url |-> <<"git/trees">>,
     body |-> [tree |-> TreeEntries(SubSeq(files, 1, IF Len(files) > 0 THEN 1 ELSE 0)),
               base_tree |-> baseTree]]

\* the request createTree sends: POST git/trees {tree, base_tree}
createTree(files, baseTree) ==
    [method |-> "POST", url |-> <<"git/trees">>,
     body |-> [tree |-> TreeEntries(files), base_tree |-> baseTree]]

\* faulty variant of createCommit: the parents are dropped
createCommitNoParents(message, treeSha, parents) ==
    [method |-> "POST", url |-> <<"git/commits">>,
     body |-> [message |-> message, tree |-> treeSha, parents |-> << >>]]

\* the request createCommit sends: POST git/commits {message, tree, parents}
createCommit(message, treeSha, parents) ==
    [method |-> "POST", url |-> <<"git/commits">>,
     body |-> [message |-> message, tree |-> treeSha, parents |-> parents]]

\* faulty variant of updateReference: the update is not forced
updateReferenceNoForce(ref, sha) ==
    [method |-> "PATCH", url |-> <<"git/refs">> \o ref,
     body |-> [sha |-> sha, force |-> FALSE]]

\* the request updateReference sends: PATCH git/refs/<ref> {sha, force: true}
updateReference(ref, sha) ==
    [method |-> "PATCH", url |-> <<"git/refs">> \o ref,
     body |-> [sha |-> sha, force |-> TRUE]]

\* the request pushFiles opens with: GET git/refs/heads/<branch>
getReference(branch) ==
    [method |-> "GET", url |-> <<"git/refs", "heads", branch>>,
     body |-> [none |-> TRUE]]

\* faulty variant of NextStep: the commit is built before the tree
NextStepReordered(step) ==
    CASE step = "ReadHead" -> "BuildCommit"
      [] step = "BuildCommit" -> "BuildTree"
      [] step = "BuildTree" -> "UpdateRef"
      [] OTHER -> "Done"

\* the step pushFiles awaits after `step` has returned
NextStep(step) ==
    CASE step = "ReadHead" -> "BuildTree"
      [] step = "BuildTree" -> "BuildCommit"
      [] step = "BuildCommit" -> "UpdateRef"
      [] OTHER -> "Done"

\* faulty variant of Request: the reference is moved to the head that was read, not to the new commit
RequestStaleSha(step, a, cs, tr, cm) ==
    CASE step = "ReadHead" -> getReference(a.branch)
      [] step = "BuildTree" -> createTree(a.files, cs)
      [] step = "BuildCommit" -> createCommit(a.message, tr.sha, <<cs>>)
      [] step = "UpdateRef" -> updateReference(<<"heads", a.branch>>, cs)
      [] OTHER -> NoReq

\* faulty variant of Request: the commit's parent is the branch head of the moment, not the head read
RequestFreshParent(step, a, cs, tr, cm) ==
    CASE step = "ReadHead" -> getReference(a.branch)
      [] step = "BuildTree" -> createTree(a.files, cs)
      [] step = "BuildCommit" -> createCommit(a.message, tr.sha, <<refs[a.branch]>>)
      [] step = "UpdateRef" -> updateReference(<<"heads", a.branch>>, cm.sha)
      [] OTHER -> NoReq

\* the call pushFiles makes for `step`, from its arguments a and its locals
\* cs (commitSha), tr (tree), cm (commit)
Request(step, a, cs, tr, cm) ==
    CASE step = "ReadHead" -> getReference(a.branch)
      [] step = "BuildTree" -> createTree(a.files, cs)
      [] step = "BuildCommit" -> createCommit(a.message, tr.sha, <<cs>>)
      [] step = "UpdateRef" -> updateReference(<<"heads", a.branch>>, cm.sha)
      [] OTHER -> NoReq

\* githubRequest throws on a non-2xx status, Schema.parse on a body of the wrong shape
Throws(r) == r.kind # "ok"
ErrorOf(r) == IF r.kind = "error" THEN "RemoteError" ELSE "ValidationError"

(* ------------------------- files.ts: pushFiles ------------------------ *)

Event(kind, step) == <<kind, step>>

\* faulty variant of pushFiles: an empty files array returns at once, without any call
pushFilesSkipEmpty(p, branch, files, message) ==
    /\ pc[p] = "idle"
    /\ \A q \in Pushes : q < p => pc[q] # "idle"
    /\ LET a == [branch |-> branch, files |-> files, message |-> message] IN
        /\ args' = [args EXCEPT ![p] = a]
        /\ req' = [req EXCEPT ![p] = IF files = << >> THEN NoReq
                                     ELSE Request(Pipeline[1], a, NoSha, NoDesc, NoDesc)]
    /\ pc' = [pc EXCEPT ![p] = IF files = << >> THEN "Done" ELSE Pipeline[1]]
    /\ calls' = [calls EXCEPT ![p] = IF files = << >> THEN << >>
                                     ELSE <<Event("issue", Pipeline[1])>>]
    /\ startAt' = [startAt EXCEPT ![p] = clock]
    /\ UNCHANGED <<commitSha, tree, commit, resp, result>>
    /\ UNCHANGED remoteVars
    /\ UNCHANGED <<served, clock, readAt, updAt, headRead, created, fault>>

\* a caller invokes pushFiles: it runs to its first await, the reference read
pushFiles(p, branch, files, message) ==
    /\ pc[p] = "idle"
    /\ \A q \in Pushes : q < p => pc[q] # "idle"
    /\ LET a == [branch |-> branch, files |-> files, message |-> message] IN
        /\ args' = [args EXCEPT ![p] = a]
        /\ req' = [req EXCEPT ![p] = Request(Pipeline[1], a, NoSha, NoDesc, NoDesc)]
    /\ pc' = [pc EXCEPT ![p] = Pipeline[1]]
    /\ calls' = [calls EXCEPT ![p] = <<Event("issue", Pipeline[1])>>]
    /\ startAt' = [startAt EXCEPT ![p] = clock]
    /\ UNCHANGED <<commitSha, tree, commit, resp, result>>
    /\ UNCHANGED remoteVars
    /\ UNCHANGED <<served, clock, readAt, updAt, headRead, created, fault>>

\* faulty variant of Throw: the rejected call is caught and issued again
ThrowRetry(p, r) ==
    /\ resp' = [resp EXCEPT ![p] = NoResp]
    /\ calls' = [calls EXCEPT ![p] = @ \o <<Event("return", pc[p]), Event("issue", pc[p])>>]
    /\ UNCHANGED <<pc, req, result, args, commitSha, tree, commit>>

\* an awaited call rejected: nothing in pushFiles catches it, the caller gets the error
Throw(p, r) ==
    /\ pc' = [pc EXCEPT ![p] = "Failed"]
    /\ req' = [req EXCEPT ![p] = NoReq]
    /\ resp' = [resp EXCEPT ![p] = NoResp]
    /\ result' = [result EXCEPT ![p] = [kind |-> "error", error |-> ErrorOf(r), step |-> pc[p]]]
    /\ calls' = [calls EXCEPT ![p] = Append(@, Event("return", pc[p]))]
    /\ UNCHANGED <<args, commitSha, tree, commit>>

\* an awaited call resolved: bind its result and run to the next await, or return
Proceed(p, body) ==
    LET step == pc[p]
        cs == IF step = "ReadHead" THEN body.object.sha ELSE commitSha[p]
        tr == IF step = "BuildTree" THEN [sha |-> body.sha] ELSE tree[p]
        cm == IF step = "BuildCommit" THEN [sha |-> body.sha] ELSE commit[p]
        nxt == NextStep(step)
    IN  /\ commitSha' = [commitSha EXCEPT ![p] = cs]
        /\ tree' = [tree EXCEPT ![p] = tr]
        /\ commit' = [commit EXCEPT ![p] = cm]
        /\ pc' = [pc EXCEPT ![p] = nxt]
        /\ req' = [req EXCEPT ![p] = Request(nxt, args[p], cs, tr, cm)]
        /\ resp' = [resp EXCEPT ![p] = NoResp]
        /\ result' = [result EXCEPT ![p] =
                         IF nxt = "Done" THEN [kind |-> "ok", value |-> body] ELSE @]
        /\ calls' = [calls EXCEPT ![p] =
                         IF nxt = "Done" THEN Append(@, Event("return", step))
                         ELSE @ \o <<Event("return", step), Event("issue", nxt)>>]
        /\ UNCHANGED args

\* the continuation of pushFiles after the await of `step`
Resume(p, step) ==
    /\ pc[p] = step
    /\ resp[p].kind # "none"
    /\ IF Throws(resp[p]) THEN Throw(p, resp[p]) ELSE Proceed(p, resp[p].body)
    /\ UNCHANGED remoteVars
    /\ UNCHANGED ghostVars

ReadHeadReturns(p) == Resume(p, "ReadHead")
BuildTreeReturns(p) == Resume(p, "BuildTree")
BuildCommitReturns(p) == Resume(p, "BuildCommit")
UpdateRefReturns(p) == Resume(p, "UpdateRef")

(* ----------------------- the remote repository ------------------------ *)

Outstanding(p) == req[p].method # "none" /\ resp[p].kind = "none"

Ok(body) == [kind |-> "ok", status |-> "OK", body |-> body]
Error(status) == [kind |-> "error", status |-> status, body |-> [message |-> status]]
\* a 2xx answer whose body is not of the schema's shape
Malformed == [kind |-> "malformed", status |-> "OK", body |-> [message |-> "garbled"]]

IsCommit(sha) == sha \in 1..Len(objects) /\ objects[sha].type = "commit"
IsTree(sha) == sha \in 1..Len(objects) /\ objects[sha].type = "tree"

\* the directory snapshot a tree-ish names: a tree, or a commit's tree
EntriesOf(sha) ==
    IF IsTree(sha) THEN objects[sha].entries
    ELSE IF IsCommit(sha) THEN objects[objects[sha].tree].entries
    ELSE NoTree

\* commits reachable from sha through parent links, sha included
RECURSIVE Ancestors(_)
Ancestors(sha) ==
    IF ~IsCommit(sha) THEN {}
    ELSE {sha} \cup UNION {Ancestors(objects[sha].parents[i]) :
                             i \in 1..Len(objects[sha].parents)}

EntryPaths(entries) == {entries[i].path : i \in 1..Len(entries)}
ContentsFor(entries, q) ==
    {entries[i].content : i \in {j \in 1..Len(entries) : entries[j].path = q}}

\* the snapshots a tree-create may produce: listed paths take an entry's content (for
\* a path listed twice the remote decides which), every other path stays as in base
Overlay(base, entries) ==
    {[q \in AllPaths |-> IF q \in EntryPaths(entries) THEN pick[q] ELSE base[q]] :
        pick \in {f \in [EntryPaths(entries) -> Contents] :
                    \A q \in EntryPaths(entries) : f[q] \in ContentsFor(entries, q)}}

\* trees are content-addressed: an identical snapshot has the sha it already had
TreeSha(T) ==
    IF \E n \in 1..Len(objects) : objects[n] = TreeObject(T)
    THEN CHOOSE n \in 1..Len(objects) : objects[n] = TreeObject(T)
    ELSE Len(objects) + 1

Answer(p, r) ==
    /\ resp' = [resp EXCEPT ![p] = r]
    /\ served' = [served EXCEPT ![p] = Append(@, <<req[p].method, req[p].url[1], r.kind>>)]
    /\ UNCHANGED <<pc, args, commitSha, tree, commit, req, result, calls>>

\* GET git/refs/heads/<branch>
RemoteGetRef(p) ==
    /\ Outstanding(p)
    /\ req[p].method = "GET"
    /\ LET b == req[p].url[3] IN
        IF refs[b] = NoSha
        THEN /\ Answer(p, Error("NotFound"))
             /\ UNCHANGED <<clock, readAt, headRead, fault>>
        ELSE \E wellFormed \in BOOLEAN :
             IF wellFormed
             THEN /\ Answer(p, Ok([ref |-> <<"refs", "heads", b>>,
                                   object |-> [sha |-> refs[b]]]))
                  /\ clock' = clock + 1
                  /\ readAt' = [readAt EXCEPT ![p] = clock + 1]
                  /\ headRead' = [headRead EXCEPT ![p] = refs[b]]
                  /\ UNCHANGED fault
             ELSE /\ Answer(p, Malformed)
                  /\ fault' = [fault EXCEPT ![p] = TRUE]
                  /\ UNCHANGED <<clock, readAt, headRead>>
    /\ UNCHANGED <<refs, objects, startAt, updAt, created>>

\* POST git/trees
RemoteCreateTree(p) ==
    /\ Outstanding(p)
    /\ req[p].method = "POST"
    /\ req[p].url[1] = "git/trees"
    /\ LET base == req[p].body.base_tree IN
        IF base # NoSha /\ ~IsCommit(base) /\ ~IsTree(base)
        THEN /\ Answer(p, Error("Unprocessable"))
             /\ UNCHANGED <<objects, fault>>
        ELSE \E T \in Overlay(EntriesOf(base), req[p].body.tree) :
             \E wellFormed \in BOOLEAN :
                /\ objects' = IF TreeSha(T) > Len(objects)
                              THEN Append(objects, TreeObject(T)) ELSE objects
                /\ Answer(p, IF wellFormed THEN Ok([sha |-> TreeSha(T)]) ELSE Malformed)
                /\ fault' = [fault EXCEPT ![p] = @ \/ ~wellFormed]
    /\ UNCHANGED <<refs, clock, startAt, readAt, updAt, headRead, created>>

\* POST git/commits
RemoteCreateCommit(p) ==
    /\ Outstanding(p)
    /\ req[p].method = "POST"
    /\ req[p].url[1] = "git/commits"
    /\ LET b == req[p].body IN
        IF ~IsTree(b.tree) \/ \E i \in 1..Len(b.parents) : ~IsCommit(b.parents[i])
        THEN /\ Answer(p, Error("Unprocessable"))
             /\ UNCHANGED <<objects, created, fault>>
        ELSE \E wellFormed \in BOOLEAN :
                /\ objects' = Append(objects, CommitObject(b.tree, b.parents, b.message))
                /\ created' = [created EXCEPT ![p] = Len(objects) + 1]
                /\ Answer(p, IF wellFormed THEN Ok([sha |-> Len(objects) + 1])
                             ELSE Malformed)
                /\ fault' = [fault EXCEPT ![p] = @ \/ ~wellFormed]
    /\ UNCHANGED <<refs, clock, startAt, readAt, updAt, headRead>>

\* PATCH git/refs/heads/<branch>
RemoteUpdateRef(p) ==
    /\ Outstanding(p)
    /\ req[p].method = "PATCH"
    /\ LET b == req[p].url[3]
           new == req[p].body.sha
       IN
        IF refs[b] = NoSha \/ ~IsCommit(new)
           \/ (~req[p].body.force /\ refs[b] \notin Ancestors(new))
        THEN /\ Answer(p, Error("Unprocessable"))
             /\ UNCHANGED <<refs, clock, updAt, fault>>
        ELSE \E wellFormed \in BOOLEAN :
                /\ refs' = [refs EXCEPT ![b] = new]
                /\ clock' = clock + 1
                /\ updAt' = [updAt EXCEPT ![p] = clock + 1]
                /\ Answer(p, IF wellFormed
                             THEN Ok([ref |-> <<"refs", "heads", b>>,
                                      object |-> [sha |-> new]])
                             ELSE Malformed)
                /\ fault' = [fault EXCEPT ![p] = @ \/ ~wellFormed]
    /\ UNCHANGED <<objects, startAt, readAt, headRead, created>>

\* the transport fails the outstanding call with a non-2xx status; nothing changes remotely
RemoteFault(p) ==
    /\ Outstanding(p)
    /\ Answer(p, Error("ServerError"))
    /\ fault' = [fault EXCEPT ![p] = TRUE]
    /\ UNCHANGED <<refs, objects, clock, startAt, readAt, updAt, headRead, created>>

(* -------------------- files.ts: decodeHTMLEntities -------------------- *)

\* A string is a sequence of characters.  A tag of a fetched document ("<code>", ...)
\* is kept as one element; it holds no "&" and no ";".

\* longest argument, counted in the pieces below
MaxPieces == 3

\* const entities: { [key: string]: string }
entities ==
    (<<"&", "q", "u", "o", "t", ";">> :> "\"") @@
    (<<"&", "a", "m", "p", ";">> :> "&") @@
    (<<"&", "a", "p", "o", "s", ";">> :> "'") @@
    (<<"&", "l", "t", ";">> :> "<") @@
    (<<"&", "g", "t", ";">> :> ">") @@
    (<<"&", "#", "x", "2", "7", ";">> :> "'")

\* the characters [a-zA-Z0-9#] among those used here
EntityNameChars ==
    {"q", "u", "o", "t", "a", "m", "p", "s", "l", "g", "x", "2", "7", "n", "b", "#", "X", "Y"}

\* the arguments tried: the six entities, one the table does not hold, and fragments
Pieces ==
    DOMAIN entities \cup
    {<<"&", "n", "b", "s", "p", ";">>, <<"&">>, <<";">>, <<"l", "t">>, <<"<">>}

RECURSIVE Concat(_)
Concat(ps) == IF ps = << >> THEN << >> ELSE Head(ps) \o Concat(Tail(ps))

Strings == {Concat(ps) : ps \in UNION {[1..n -> Pieces] : n \in 0..MaxPieces}}

\* [a-zA-Z0-9#]+ from position i: the index of the last character it takes (i - 1: none)
RECURSIVE RunEnd(_, _)
RunEnd(s, i) ==
    IF i <= Len(s) /\ s[i] \in EntityNameChars THEN RunEnd(s, i + 1) ELSE i - 1

\* (match) => entities[match] || match
Replacement(match) ==
    IF match \in DOMAIN entities THEN <<entities[match]>> ELSE match

\* faulty variant of Replace: the pattern without its g flag, only the first match is replaced
RECURSIVE ReplaceFirst(_, _)
ReplaceFirst(s, i) ==
    IF i > Len(s) THEN << >>
    ELSE LET k == RunEnd(s, i + 1) IN
         IF s[i] = "&" /\ k >= i + 1 /\ k + 1 <= Len(s) /\ s[k + 1] = ";"
         THEN Replacement(SubSeq(s, i, k + 1)) \o SubSeq(s, k + 2, Len(s))
         ELSE <<s[i]>> \o ReplaceFirst(s, i + 1)

\* str.replace(/&[a-zA-Z0-9#]+;/g, ...) from position i on: one pass, left to right,
\* what a replacement puts out is not scanned again
RECURSIVE Replace(_, _)
Replace(s, i) ==
    IF i > Len(s) THEN << >>
    ELSE LET k == RunEnd(s, i + 1) IN
         IF s[i] = "&" /\ k >= i + 1 /\ k + 1 <= Len(s) /\ s[k + 1] = ";"
         THEN Replacement(SubSeq(s, i, k + 1)) \o Replace(s, k + 2)
         ELSE <<s[i]>> \o Replace(s, i + 1)

decodeHTMLEntities(s) == Replace(s, 1)

NotDecoded == [applied |-> FALSE, value |-> << >>]

DecodeIdle ==
    /\ str = << >>
    /\ decoded = NotDecoded

\* decodeHTMLEntities is applied to the argument
Decode ==
    /\ ~decoded.applied
    /\ decoded' = [applied |-> TRUE, value |-> decodeHTMLEntities(str)]
    /\ UNCHANGED str

(* --------------------- files.ts: createOrUpdateFile ------------------- *)

\* longest fetched document, counted in the pieces below
MaxDocPieces == 5

Undefined == "undefined"
FilePath == "a.txt"
FileBranch == "main"

\* what a caller may pass: content, published_artifact_url and sha are each present
\* or left undefined; a sha may be the file's current token, a stale one, or empty
Texts == {<<"X">>, <<"&", "l", "t", ";">>}
Urls == {"https://artifact"}
Shas == {"", "s0", "s1"}
OptionalKeys == {"content", "published_artifact_url", "sha"}
FileArgs ==
    {[k \in D |-> CASE k = "content" -> t
                    [] k = "published_artifact_url" -> u
                    [] k = "sha" -> s] :
        D \in SUBSET OptionalKeys, t \in Texts, u \in Urls, s \in Shas}
NoFileArgs == [k \in {} |-> Undefined]

\* the two refinements of CreateOrUpdateFileSchema: one of the two is given, not both
CreateOrUpdateFileSchema(a) ==
    /\ "content" \in DOMAIN a \/ "published_artifact_url" \in DOMAIN a
    /\ ~("content" \in DOMAIN a /\ "published_artifact_url" \in DOMAIN a)

\* the documents a fetch may return: code tags and entity text in any arrangement
OpenTag == "<code>"
CloseTag == "</code>"
DocPieces == {<<OpenTag>>, <<CloseTag>>, <<"&", "l", "t", ";">>}
Docs == {Concat(ps) : ps \in UNION {[1..n -> DocPieces] : n \in 0..MaxDocPieces}}

Min(S) == CHOOSE i \in S : \A j \in S : i <= j

NoMatch == [found |-> FALSE, group |-> << >>, last |-> 0]

\* /<code[^>]*?>(.*?)<\/code>/s searched from position from: the leftmost opening tag
\* that has a closing tag after it, up to the nearest such closing tag
CodeBlockFrom(html, from) ==
    LET starts == {i \in from..Len(html) :
                      html[i] = OpenTag /\ \E j \in (i + 1)..Len(html) : html[j] = CloseTag}
    IN IF starts = {} THEN NoMatch
       ELSE LET i == Min(starts)
                j == Min({j \in (i + 1)..Len(html) : html[j] = CloseTag})
            IN [found |-> TRUE, group |-> SubSeq(html, i + 1, j - 1), last |-> j]

\* html.match(codeBlockRegex): the pattern has no g flag, the first match is the result
CodeBlock(html) == CodeBlockFrom(html, 1)

\* the UTF-8 bytes of one element of a string
Utf8 ==
    ("X" :> <<88>>) @@ ("&" :> <<38>>) @@ ("l" :> <<108>>) @@ ("t" :> <<116>>) @@
    (";" :> <<59>>) @@ ("<" :> <<60>>) @@
    (OpenTag :> <<60, 99, 111, 100, 101, 62>>) @@
    (CloseTag :> <<60, 47, 99, 111, 100, 101, 62>>)

RECURSIVE Bytes(_)
Bytes(s) == IF s = << >> THEN << >> ELSE Utf8[Head(s)] \o Bytes(Tail(s))

Base64Digits ==
    <<"A", "B", "C", "D", "E", "F", "G", "H", "I", "J", "K", "L", "M", "N", "O", "P",
      "Q", "R", "S", "T", "U", "V", "W", "X", "Y", "Z", "a", "b", "c", "d", "e", "f",
      "g", "h", "i", "j", "k", "l", "m", "n", "o", "p", "q", "r", "s", "t", "u", "v",
      "w", "x", "y", "z", "0", "1", "2", "3", "4", "5", "6", "7", "8", "9", "+", "/">>

\* three bytes to four digits, "=" where a byte is missing
RECURSIVE Base64(_)
Base64(bytes) ==
    IF bytes = << >> THEN << >>
    ELSE LET n == Len(bytes)
             w == bytes[1] * 65536 + (IF n >= 2 THEN bytes[2] * 256 ELSE 0)
                                   + (IF n >= 3 THEN bytes[3] ELSE 0)
         IN << Base64Digits[(w \div 262144) + 1],
               Base64Digits[((w \div 4096) % 64) + 1],
               IF n >= 2 THEN Base64Digits[((w \div 64) % 64) + 1] ELSE "=",
               IF n >= 3 THEN Base64Digits[(w % 64) + 1] ELSE "=" >>
            \o (IF n > 3 THEN Base64(SubSeq(bytes, 4, n)) ELSE << >>)

\* Buffer.from(fileContent).toString("base64")
EncodedContent(fc) == Base64(Bytes(fc))

\* !currentSha: undefined and the empty string are both falsy
Falsy(sha) == sha = Undefined \/ sha = ""

FetchRequest(url) == [method |-> "FETCH", url |-> <<url>>]

\* getFileContents(owner, repo, path, branch): GET contents/<path>?ref=<branch>
getFileContents(path, branch) ==
    [method |-> "GET", url |-> <<"contents", path>>, ref |-> branch]

\* faulty variant of WriteRequest: the sha argument is sent as it was passed, whatever
\* the pre-read found
WriteRequestArgSha(a, fc, sha) ==
    [method |-> "PUT", url |-> <<"contents", FilePath>>,
     body |-> [k \in {"message", "content", "branch"}
                     \cup (IF "sha" \in DOMAIN a THEN {"sha"} ELSE {}) |->
                 CASE k = "message" -> Message
                   [] k = "content" -> EncodedContent(fc)
                   [] k = "branch" -> FileBranch
                   [] k = "sha" -> a.sha]]

\* the write: { message, content: encodedContent, branch, ...(currentSha ? { sha } : {}) }
WriteRequest(a, fc, sha) ==
    [method |-> "PUT", url |-> <<"contents", FilePath>>,
     body |-> [k \in {"message", "content", "branch"}
                     \cup (IF Falsy(sha) THEN {} ELSE {"sha"}) |->
                 CASE k = "message" -> Message
                   [] k = "content" -> EncodedContent(fc)
                   [] k = "branch" -> FileBranch
                   [] k = "sha" -> sha]]

FileIdle ==
    /\ fpc = "idle"
    /\ fargs = NoFileArgs
    /\ fileContent = << >>
    /\ currentSha = Undefined
    /\ freq = NoReq
    /\ fresp = NoResp
    /\ fresult = NoResult
    /\ fserved = << >>

\* createOrUpdateFile throws
FileThrow(error, status) ==
    /\ fpc' = "Failed"
    /\ freq' = NoReq
    /\ fresp' = NoResp
    /\ fresult' = [kind |-> "error", error |-> error, status |-> status, step |-> fpc]
    /\ UNCHANGED <<fileContent, currentSha>>

\* faulty variant of ContentResolved: a supplied sha is ignored, the file is always read
ContentResolvedAlwaysRead(fc, a) ==
    /\ fileContent' = fc
    /\ currentSha' = Undefined
    /\ freq' = getFileContents(FilePath, FileBranch)
    /\ fpc' = "Read"
    /\ fresp' = NoResp
    /\ UNCHANGED fresult

\* fileContent is known: encode it, take the caller's sha, and either read the file
\* first (no sha) or go straight to the write
ContentResolved(fc, a) ==
    LET sha == IF "sha" \in DOMAIN a THEN a.sha ELSE Undefined IN
    /\ fileContent' = fc
    /\ currentSha' = sha
    /\ IF Falsy(sha)
       THEN freq' = getFileContents(FilePath, FileBranch) /\ fpc' = "Read"
       ELSE freq' = WriteRequest(a, fc, sha) /\ fpc' = "Write"
    /\ fresp' = NoResp
    /\ UNCHANGED fresult

\* a caller invokes createOrUpdateFile: it runs to its first await or throws
createOrUpdateFile(a) ==
    /\ fpc = "idle"
    /\ fargs' = a
    /\ IF "content" \in DOMAIN a
       THEN ContentResolved(a.content, a)
       ELSE IF "published_artifact_url" \in DOMAIN a
       THEN /\ freq' = FetchRequest(a.published_artifact_url)
            /\ fpc' = "Fetch"
            /\ UNCHANGED <<fileContent, currentSha, fresp, fresult>>
       ELSE FileThrow("InvalidArgument", "none")
    /\ UNCHANGED <<repoFile, fserved>>

\* the fetch of the published artifact resolved or rejected
FetchReturns ==
    /\ fpc = "Fetch"
    /\ fresp.kind # "none"
    /\ IF Throws(fresp)
       THEN FileThrow("FetchError", fresp.status)
       ELSE LET match == CodeBlock(fresp.body) IN
            IF ~match.found
            THEN FileThrow("ContentExtractionError", "none")
            ELSE ContentResolved(decodeHTMLEntities(match.group), fargs)
    /\ UNCHANGED <<fargs, repoFile, fserved>>

\* faulty variant of PreReadReturns: a failed pre-read is rethrown
PreReadReturnsRethrow ==
    /\ fpc = "Read"
    /\ fresp.kind # "none"
    /\ IF Throws(fresp)
       THEN FileThrow(ErrorOf(fresp), fresp.status)
       ELSE /\ currentSha' = IF fresp.body.array THEN currentSha ELSE fresp.body.sha
            /\ freq' = WriteRequest(fargs, fileContent, currentSha')
            /\ fpc' = "Write"
            /\ fresp' = NoResp
            /\ UNCHANGED <<fileContent, fresult>>
    /\ UNCHANGED <<fargs, repoFile, fserved>>

\* the pre-read returned or threw: a single file gives its sha, a listing gives none,
\* a throw (non-2xx or a body the schema rejects) is caught and logged; then the write
PreReadReturns ==
    /\ fpc = "Read"
    /\ fresp.kind # "none"
    /\ currentSha' = IF ~Throws(fresp) /\ ~fresp.body.array
                     THEN fresp.body.sha ELSE currentSha
    /\ freq' = WriteRequest(fargs, fileContent, currentSha')
    /\ fpc' = "Write"
    /\ fresp' = NoResp
    /\ UNCHANGED <<fileContent, fresult, fargs, repoFile, fserved>>

\* faulty variant of WriteReturns: a rejected write is taken for a success
WriteReturnsIgnoreError ==
    /\ fpc = "Write"
    /\ fresp.kind # "none"
    /\ fpc' = "Done"
    /\ freq' = NoReq
    /\ fresp' = NoResp
    /\ fresult' = [kind |-> "ok", value |-> fresp.body]
    /\ UNCHANGED <<fileContent, currentSha, fargs, repoFile, fserved>>

\* the write returned or threw; its parsed answer is the result
WriteReturns ==
    /\ fpc = "Write"
    /\ fresp.kind # "none"
    /\ IF Throws(fresp)
       THEN FileThrow(ErrorOf(fresp), fresp.status)
       ELSE /\ fpc' = "Done"
            /\ freq' = NoReq
            /\ fresp' = NoResp
            /\ fresult' = [kind |-> "ok", value |-> fresp.body]
            /\ UNCHANGED <<fileContent, currentSha>>
    /\ UNCHANGED <<fargs, repoFile, fserved>>

(* ------------------- the remote side of the file calls ---------------- *)

FileOutstanding == freq.method # "none" /\ fresp.kind = "none"

\* the entry the remote may hold at the path: nothing, a file, or a directory
NoFile == [kind |-> "absent", sha |-> Undefined, content |-> << >>]
FileEntry(sha, content) == [kind |-> "file", sha |-> sha, content |-> content]
Directory == [kind |-> "dir", sha |-> Undefined, content |-> << >>]
RepoFiles == {NoFile, FileEntry("s1", EncodedContent(<<"X">>)), Directory}

FileAnswer(r) ==
    /\ fresp' = r
    /\ fserved' = Append(fserved, [req |-> freq, resp |-> r])
    /\ UNCHANGED <<fpc, fargs, fileContent, currentSha, freq, fresult>>

\* the published artifact is served: any document
RemoteDocument ==
    /\ FileOutstanding
    /\ freq.method = "FETCH"
    /\ \E html \in Docs : FileAnswer(Ok(html))
    /\ UNCHANGED repoFile

\* GET contents/<path>: the file record, the directory listing, or NotFound; the body
\* may also come back in a shape the schema rejects
RemoteGetContents ==
    /\ FileOutstanding
    /\ freq.method = "GET"
    /\ \E wellFormed \in BOOLEAN :
          FileAnswer(IF repoFile.kind = "absent" THEN Error("NotFound")
                     ELSE IF ~wellFormed THEN Malformed
                     ELSE IF repoFile.kind = "dir" THEN Ok([array |-> TRUE])
                     ELSE Ok([array |-> FALSE, sha |-> repoFile.sha,
                              content |-> repoFile.content]))
    /\ UNCHANGED repoFile

\* PUT contents/<path>: no sha creates, and is a Conflict if the file exists; a sha
\* updates the file that has this version token, and is a Conflict otherwise
RemotePutContents ==
    /\ FileOutstanding
    /\ freq.method = "PUT"
    /\ LET body == freq.body
           accepted == IF "sha" \in DOMAIN body
                       THEN repoFile.kind = "file" /\ repoFile.sha = body.sha
                       ELSE repoFile.kind = "absent"
       IN IF ~accepted
          THEN FileAnswer(Error("Conflict")) /\ UNCHANGED repoFile
          ELSE /\ repoFile' = FileEntry("s2", body.content)
               /\ \E wellFormed \in BOOLEAN :
                     FileAnswer(IF wellFormed
                                THEN Ok([content |-> [path |-> FilePath, sha |-> "s2"],
                                         commit |-> [message |-> body.message]])
                                ELSE Malformed)

\* the transport fails a call: the fetch rejects, or the remote answers non-2xx
RemoteFileFault ==
    /\ FileOutstanding
    /\ FileAnswer(Error(IF freq.method = "FETCH" THEN "NetworkError" ELSE "ServerError"))
    /\ UNCHANGED repoFile

(* --------------------------- specification ---------------------------- *)

Init == PushInit /\ FileIdle /\ repoFile = NoFile /\ DecodeIdle


otherVars == <<fileVars, decodeVars>>

Next ==
    \/ \E p \in Pushes, b \in Branches, f \in FileLists : pushFiles(p, b, f, Message) /\ UNCHANGED otherVars
    \/ \E p \in Pushes : ReadHeadReturns(p) /\ UNCHANGED otherVars
    \/ \E p \in Pushes : BuildTreeReturns(p) /\ UNCHANGED otherVars
    \/ \E p \in Pushes : BuildCommitReturns(p) /\ UNCHANGED otherVars
    \/ \E p \in Pushes : UpdateRefReturns(p) /\ UNCHANGED otherVars
    \/ \E p \in Pushes : RemoteGetRef(p) /\ UNCHANGED otherVars
    \/ \E p \in Pushes : RemoteCreateTree(p) /\ UNCHANGED otherVars
    \/ \E p \in Pushes : RemoteCreateCommit(p) /\ UNCHANGED otherVars
    \/ \E p \in Pushes : RemoteUpdateRef(p) /\ UNCHANGED otherVars
    \/ \E p \in Pushes : RemoteFault(p) /\ UNCHANGED otherVars

Spec == Init /\ [][Next]_vars

\* one createOrUpdateFile invocation against any state of the file
InitFile == PushInit /\ FileIdle /\ repoFile \in RepoFiles /\ DecodeIdle

NextFile ==
    \/ \E a \in FileArgs : createOrUpdateFile(a) /\ UNCHANGED <<pushVars, decodeVars>>
    \/ FetchReturns /\ UNCHANGED <<pushVars, decodeVars>>
    \/ PreReadReturns /\ UNCHANGED <<pushVars, decodeVars>>
    \/ WriteReturns /\ UNCHANGED <<pushVars, decodeVars>>
    \/ RemoteDocument /\ UNCHANGED <<pushVars, decodeVars>>
    \/ RemoteGetContents /\ UNCHANGED <<pushVars, decodeVars>>
    \/ RemotePutContents /\ UNCHANGED <<pushVars, decodeVars>>
    \/ RemoteFileFault /\ UNCHANGED <<pushVars, decodeVars>>

SpecFile == InitFile /\ [][NextFile]_vars

\* the caller runs the same push again after it failed: push p is invoked with the
\* arguments of push p - 1 once that one has thrown, and nobody else writes
Retry(p) ==
    /\ p - 1 \in Pushes
    /\ pc[p - 1] = "Failed"
    /\ pushFiles(p, args[p - 1].branch, args[p - 1].files, args[p - 1].message)

NextRetry ==
    \/ \E b \in Branches, f \in FileLists : pushFiles(1, b, f, Message) /\ UNCHANGED otherVars
    \/ \E p \in Pushes : Retry(p) /\ UNCHANGED otherVars
    \/ \E p \in Pushes : ReadHeadReturns(p) /\ UNCHANGED otherVars
    \/ \E p \in Pushes : BuildTreeReturns(p) /\ UNCHANGED otherVars
    \/ \E p \in Pushes : BuildCommitReturns(p) /\ UNCHANGED otherVars
    \/ \E p \in Pushes : UpdateRefReturns(p) /\ UNCHANGED otherVars
    \/ \E p \in Pushes : RemoteGetRef(p) /\ UNCHANGED otherVars
    \/ \E p \in Pushes : RemoteCreateTree(p) /\ UNCHANGED otherVars
    \/ \E p \in Pushes : RemoteCreateCommit(p) /\ UNCHANGED otherVars
    \/ \E p \in Pushes : RemoteUpdateRef(p) /\ UNCHANGED otherVars
    \/ \E p \in Pushes : RemoteFault(p) /\ UNCHANGED otherVars

SpecRetry == Init /\ [][NextRetry]_vars

\* decodeHTMLEntities applied to any string
InitDecode == PushInit /\ FileIdle /\ repoFile = NoFile /\ str \in Strings /\ decoded = NotDecoded

NextDecode == Decode /\ UNCHANGED <<pushVars, fileVars>>

SpecDecode == InitDecode /\ [][NextDecode]_vars

(* ----------------------------- properties ----------------------------- *)

IsPrefix(s, t) == Len(s) <= Len(t) /\ \A i \in 1..Len(s) : s[i] = t[i]
IsIssue(e) == e[1] = "issue"
\* the steps push p has issued, in order
Issued(p) ==
    LET ev == SelectSeq(calls[p], IsIssue) IN [i \in 1..Len(ev) |-> ev[i][2]]
\* the remote calls of one push, as the remote sees them
RemoteCalls ==
    << <<"GET", "git/refs">>, <<"POST", "git/trees">>, <<"POST", "git/commits">>,
       <<"PATCH", "git/refs">> >>
ServedCalls(p) == [i \in 1..Len(served[p]) |-> <<served[p][i][1], served[p][i][2]>>]
Finished(p) == pc[p] \in {"Done", "Failed"}
FilePaths(files) == {files[i].path : i \in 1..Len(files)}

\* C1: within one pushFiles call the remote calls go out in the order ReadHead,
\* BuildTree, BuildCommit, UpdateRef, each only after the previous one has returned;
\* a successful push makes each of the four exactly once and no other remote call.
C1_StrictOrder ==
    \A p \in Pushes :
        /\ IsPrefix(Issued(p), Pipeline)
        /\ IsPrefix(ServedCalls(p), RemoteCalls)
        /\ \A i \in 1..Len(calls[p]) :
              IF i % 2 = 1 THEN calls[p][i][1] = "issue"
              ELSE calls[p][i] = <<"return", calls[p][i - 1][2]>>
        /\ Len(Issued(p)) <= Len(served[p]) + 1
        /\ pc[p] = "Done" =>
              /\ Issued(p) = Pipeline
              /\ ServedCalls(p) = RemoteCalls
              /\ Len(calls[p]) = 2 * Len(Pipeline)

C1_Witness == \E p \in Pushes : pc[p] = "Done" /\ Len(args[p].files) = MaxFiles

\* C2: with no other writer on the branch since the push read its head, the branch
\* holds either the head the push read or a tree with every path of the edits written;
\* never only some of them, whatever step the push is at or has aborted at.
C2_Atomic ==
    \A p \in Pushes :
        (/\ readAt[p] > 0
         /\ \A q \in Pushes \ {p} : updAt[q] = 0 \/ updAt[q] < readAt[p])
        =>
        LET T == EntriesOf(refs[args[p].branch])
            E == args[p].files
            visible == {q \in FilePaths(E) : T[q] \in ContentsFor(E, q)}
        IN  \/ refs[args[p].branch] = headRead[p]
            \/ visible = FilePaths(E)

C2_Witness ==
    \E p \in Pushes :
        /\ updAt[p] > 0
        /\ FilePaths(args[p].files) = Paths
        /\ refs[args[p].branch] # headRead[p]
        /\ \A q \in Pushes \ {p} : updAt[q] = 0

\* C3: every reference update a push issues targets a commit with exactly one parent,
\* the head sha the remote returned to this push's own reference read.
C3_SingleParentIsHeadRead ==
    \A p \in Pushes :
        req[p].method = "PATCH" =>
            /\ IsCommit(req[p].body.sha)
            /\ headRead[p] # NoSha
            /\ objects[req[p].body.sha].parents = <<headRead[p]>>

C3_Witness ==
    \E p \in Pushes :
        /\ req[p].method = "PATCH"
        /\ resp[p].kind = "none"
        /\ refs[args[p].branch] # headRead[p]

\* the tree of the commit the remote created for push p, and the tree of the head it read
BuiltTree(p) == EntriesOf(created[p])
HeadTree(p) == EntriesOf(headRead[p])

\* C4 as stated: the tree of the commit a push produced maps every listed path to the
\* edit's content, for every edit, and leaves every unlisted path as in the head read.
C4_EveryEditApplied ==
    \A p \in Pushes :
        created[p] # NoSha =>
            /\ \A i \in 1..Len(args[p].files) :
                  BuiltTree(p)[args[p].files[i].path] = args[p].files[i].content
            /\ \A q \in AllPaths \ FilePaths(args[p].files) : BuiltTree(p)[q] = HeadTree(p)[q]

\* C4 amended: the tree of the commit a push produced maps every listed path to the
\* content of an edit that lists it (the edit's content when the path is listed once),
\* and has for every unlisted path exactly the entry of the head read at ReadHead.
C4_IncrementalBuild ==
    \A p \in Pushes :
        created[p] # NoSha =>
            /\ \A q \in FilePaths(args[p].files) :
                  BuiltTree(p)[q] \in ContentsFor(args[p].files, q)
            /\ \A q \in AllPaths \ FilePaths(args[p].files) : BuiltTree(p)[q] = HeadTree(p)[q]

C4_Witness ==
    \E p, q \in Pushes :
        /\ created[p] # NoSha
        /\ FilePaths(args[p].files) = Paths
        /\ HeadTree(p)["b.txt"] = Absent
        /\ created[q] # NoSha
        /\ Len(args[q].files) = 2
        /\ args[q].files[1].path = args[q].files[2].path
        /\ args[q].files[1].content # args[q].files[2].content

\* C5: the BuildTree request carries base_tree = the head commit sha read at ReadHead
\* and one entry per edit, in the edits' order, each {path, "100644", "blob", content};
\* it is the push's only tree call, and duplicate paths are sent as they are.
C5_TreeRequest ==
    \A p \in Pushes :
        (req[p].method = "POST" /\ req[p].url = <<"git/trees">>) =>
            LET b == req[p].body
                E == args[p].files
            IN  /\ b.base_tree = headRead[p]
                /\ headRead[p] # NoSha
                /\ Len(b.tree) = Len(E)
                /\ \A i \in 1..Len(E) :
                      b.tree[i] = [path |-> E[i].path, mode |-> "100644",
                                   type |-> "blob", content |-> E[i].content]
                /\ Cardinality({i \in 1..Len(Issued(p)) : Issued(p)[i] = "BuildTree"}) = 1

C5_Witness ==
    \E p \in Pushes :
        /\ req[p].method = "POST"
        /\ req[p].url = <<"git/trees">>
        /\ Len(args[p].files) = 2
        /\ args[p].files[1].path = args[p].files[2].path

\* C6: a push that completes returns a reference whose object.sha is the sha of the
\* commit its own BuildCommit created, and right after its UpdateRef (no reference
\* operation since) the branch points at that commit.
C6_ReturnsOwnCommit ==
    \A p \in Pushes :
        /\ pc[p] = "Done" =>
              /\ result[p].kind = "ok"
              /\ created[p] # NoSha
              /\ result[p].value.object.sha = created[p]
        /\ (updAt[p] > 0 /\ updAt[p] = clock /\ (resp[p].kind = "ok" \/ pc[p] = "Done"))
              => refs[args[p].branch] = created[p]

C6_Witness ==
    \E p \in Pushes : pc[p] = "Done" /\ updAt[p] = clock /\ Len(args[p].files) > 0

\* the index of the first call of push p the remote did not answer with success
FailedCalls(p) == {i \in 1..Len(served[p]) : served[p][i][3] # "ok"}

\* C7: a failed step ends the push: no later call is issued or served, the push ends
\* Failed with the error of that step, and a branch that does not exist is not created.
C7_AbortOnFailure ==
    /\ refs["nobranch"] = NoSha
    /\ \A p \in Pushes :
        /\ \A i \in FailedCalls(p) :
              /\ i = Len(served[p])
              /\ Issued(p) = SubSeq(Pipeline, 1, i)
              /\ pc[p] \in {Pipeline[i], "Failed"}
        /\ (pc[p] = "Failed") =>
              /\ FailedCalls(p) # {}
              /\ result[p].kind = "error"
              /\ result[p].step = Pipeline[Len(served[p])]
              /\ req[p] = NoReq
        /\ (args[p].branch = "nobranch" /\ Len(served[p]) > 0) =>
              served[p] = << <<"GET", "git/refs", "error">> >>

C7_Witness ==
    \E p, q \in Pushes :
        /\ pc[p] = "Failed"
        /\ args[p].branch = "nobranch"
        /\ pc[q] = "Failed"
        /\ result[q].step = "BuildCommit"

\* the push whose reference update the remote applied last on branch b
Updaters(b) == {p \in Pushes : updAt[p] > 0 /\ args[p].branch = b}
LastUpdater(b) == CHOOSE p \in Updaters(b) : \A q \in Updaters(b) : updAt[q] <= updAt[p]

\* C8: pushes A and B read the same head; A completes before B's UpdateRef is served.
\* Once B's UpdateRef is answered and B has resumed, B is Done, the branch points at
\* B's commit, whose tree is that head's tree with B's edits alone, A's commit is not
\* reachable from the branch, and neither push raised an error.
C8_LostUpdate ==
    \A A, B \in Pushes :
        (/\ A # B
         /\ args[A].branch = args[B].branch
         /\ headRead[A] # NoSha
         /\ headRead[A] = headRead[B]
         /\ pc[A] = "Done"
         /\ Finished(B)
         /\ Len(served[B]) = Len(Pipeline)
         /\ ~fault[B]
         /\ updAt[B] = 0 \/ updAt[A] < updAt[B]
         /\ \A q \in Pushes : updAt[q] <= updAt[B] \/ updAt[B] = 0)
        =>
        /\ pc[B] = "Done"
        /\ result[A].kind = "ok"
        /\ result[B].kind = "ok"
        /\ refs[args[B].branch] = created[B]
        /\ BuiltTree(B) \in Overlay(HeadTree(B), args[B].files)
        /\ created[A] \notin Ancestors(refs[args[B].branch])

C8_Witness ==
    \E A, B \in Pushes :
        /\ A # B
        /\ headRead[A] = C0
        /\ headRead[B] = C0
        /\ pc[A] = "Done"
        /\ pc[B] = "Done"
        /\ updAt[A] < updAt[B]
        /\ args[A].files = <<[path |-> "a.txt", content |-> "X"]>>
        /\ args[B].files = <<[path |-> "b.txt", content |-> "Y"]>>
        /\ EntriesOf(refs["main"])["a.txt"] = "O"

\* C9: once no push is running, the branch points at the commit created by the push
\* whose UpdateRef the remote executed last.
C9_LastUpdateWins ==
    (\A p \in Pushes : pc[p] \in {"idle", "Done", "Failed"}) =>
        \A b \in Branches :
            Updaters(b) # {} => refs[b] = created[LastUpdater(b)]

C9_Witness ==
    /\ \A p \in Pushes : Finished(p) /\ updAt[p] > 0 /\ headRead[p] = C0
    /\ refs["main"] = created[LastUpdater("main")]

\* pushes p and q ran at the same time: each was invoked before the other's last
\* reference operation
LastRefOp(p) == IF updAt[p] > 0 THEN updAt[p] ELSE readAt[p]
Concurrent(p, q) == startAt[p] < LastRefOp(q) /\ startAt[q] < LastRefOp(p)

\* C10 as stated: once all pushes have finished (here: every one of them successfully),
\* the commit of any push other than the winner whose ReadHead happened before the
\* winner's UpdateRef is not reachable through parent links from the commit the branch
\* points at.
C10_ReadBeforeWinnerUpdate ==
    (\A p \in Pushes : pc[p] = "Done") =>
        \A b \in Branches : Updaters(b) # {} =>
            \A A \in Pushes \ {LastUpdater(b)} :
                (/\ args[A].branch = b
                 /\ created[A] # NoSha
                 /\ Concurrent(A, LastUpdater(b))
                 /\ readAt[A] > 0
                 /\ readAt[A] < updAt[LastUpdater(b)])
                => created[A] \notin Ancestors(refs[b])

\* C10 amended: once all pushes have finished, the commit of any push other than the
\* winner whose UpdateRef had not been executed when the winner's ReadHead happened
\* is not reachable through parent links from the commit the branch points at.
C10_UpdateNotBeforeWinnerRead ==
    (\A p \in Pushes : Finished(p)) =>
        \A b \in Branches : Updaters(b) # {} =>
            \A A \in Pushes \ {LastUpdater(b)} :
                (/\ args[A].branch = b
                 /\ created[A] # NoSha
                 /\ Concurrent(A, LastUpdater(b))
                 /\ updAt[A] = 0 \/ readAt[LastUpdater(b)] < updAt[A])
                => created[A] \notin Ancestors(refs[b])

C10_Witness ==
    /\ \A p \in Pushes : pc[p] = "Done"
    /\ \E A \in Pushes \ {LastUpdater("main")} :
        /\ Concurrent(A, LastUpdater("main"))
        /\ readAt[LastUpdater("main")] < updAt[A]
        /\ created[A] \notin Ancestors(refs["main"])

\* C11: the reference update always carries force: true, and a push none of whose calls
\* the transport failed or garbled never fails once its reference read was answered:
\* it keeps a call outstanding until it is Done, with a reference as its result, also
\* when the branch no longer points at the head it read.
C11_ForcedUpdateNeverFails ==
    \A p \in Pushes :
        /\ req[p].method = "PATCH" => req[p].body.force = TRUE
        /\ (~fault[p] /\ readAt[p] > 0) =>
              /\ pc[p] # "Failed"
              /\ pc[p] # "Done" => req[p].method # "none"
              /\ Len(served[p]) = Len(Pipeline) => updAt[p] > 0
              /\ pc[p] = "Done" =>
                    /\ result[p].kind = "ok"
                    /\ result[p].value.object.sha = created[p]

C11_Witness ==
    \E p, q \in Pushes :
        /\ pc[p] = "Done"
        /\ ~fault[p]
        /\ readAt[p] < updAt[q]
        /\ updAt[q] < updAt[p]
        /\ headRead[p] # created[q]

(* ------------------- properties of createOrUpdateFile ----------------- *)

\* the network calls createOrUpdateFile has issued, in order
FileIssued ==
    [i \in 1..Len(fserved) |-> fserved[i].req] \o (IF FileOutstanding THEN <<freq>> ELSE << >>)
IsFetch(r) == r.method = "FETCH"
IsRead(r) == r.method = "GET"
IsWrite(r) == r.method = "PUT"
OfFetch(e) == IsFetch(e.req)
OfRead(e) == IsRead(e.req)
OfWrite(e) == IsWrite(e.req)
Reads == SelectSeq(FileIssued, IsRead)
Writes == SelectSeq(FileIssued, IsWrite)
\* the answers given so far to the fetch, the pre-read and the write
FetchAnswers == SelectSeq(fserved, OfFetch)
ReadAnswers == SelectSeq(fserved, OfRead)
WriteAnswers == SelectSeq(fserved, OfWrite)
ArgSha == IF "sha" \in DOMAIN fargs THEN fargs.sha ELSE Undefined
FileFinished == fpc \in {"Done", "Failed"}

\* the code blocks of a document: the successive matches of the pattern
RECURSIVE CountBlocks(_, _)
CountBlocks(html, from) ==
    LET m == CodeBlockFrom(html, from) IN
    IF m.found THEN 1 + CountBlocks(html, m.last + 1) ELSE 0

\* C12: createOrUpdateFile called with both content and published_artifact_url, or with
\* neither, fails with InvalidArgument and has issued no network call (no fetch, no
\* pre-read, no write); called with exactly one of them it does not fail that way.
C12_ExactlyOneSource ==
    fpc # "idle" =>
        IF CreateOrUpdateFileSchema(fargs)
        THEN ~(fpc = "Failed" /\ fresult.error = "InvalidArgument")
        ELSE fpc = "Failed" /\ fresult.error = "InvalidArgument" /\ FileIssued = << >>

\* C13: content taken from a fetched document: with exactly one code block every write
\* carries the encoded entity-decoded text of that block; with no block, or with two or
\* more, the call fails with ContentExtractionError and issues no pre-read and no write.
C13_SingularCodeBlock ==
    (Len(FetchAnswers) = 1 /\ FetchAnswers[1].resp.kind = "ok" /\ fpc # "Fetch") =>
        LET html == FetchAnswers[1].resp.body IN
        IF CountBlocks(html, 1) = 1
        THEN /\ fileContent = decodeHTMLEntities(CodeBlockFrom(html, 1).group)
             /\ \A i \in 1..Len(Writes) :
                   Writes[i].body.content = EncodedContent(fileContent)
             /\ ~(fpc = "Failed" /\ fresult.error = "ContentExtractionError")
        ELSE /\ fpc = "Failed"
             /\ fresult.error = "ContentExtractionError"
             /\ Reads = << >>
             /\ Writes = << >>

\* C14 as stated: a call that ends without error made, when no sha argument was passed,
\* exactly one read of the path on the branch and then exactly one write, and when a sha
\* argument was passed no read and exactly one write.
C14_ReadOnlyWithoutShaArgument ==
    fpc = "Done" =>
        IF "sha" \in DOMAIN fargs
        THEN Reads = << >> /\ Len(Writes) = 1
        ELSE SelectSeq(FileIssued, LAMBDA r : ~IsFetch(r))
                = <<getFileContents(FilePath, FileBranch), Writes[1]>>

\* C14: a call that ends without error made, when no sha or an empty sha was passed,
\* exactly one read of the path on the branch and then exactly one write, the read
\* first; when a non-empty sha was passed it made no read and exactly one write.
C14_ReadOnlyWithoutSha ==
    fpc = "Done" =>
        /\ Len(Writes) = 1
        /\ IF Falsy(ArgSha)
           THEN SelectSeq(FileIssued, LAMBDA r : ~IsFetch(r))
                   = <<getFileContents(FilePath, FileBranch), Writes[1]>>
           ELSE Reads = << >>

C14_Witness ==
    /\ fpc = "Done"
    /\ "sha" \in DOMAIN fargs
    /\ fargs.sha = ""
    /\ Len(Reads) = 1
    /\ repoFile.sha = "s2"

\* C15: a pre-read that fails (NotFound, another non-2xx answer, or a body the schema
\* rejects) is never the error of the call: once its continuation has run exactly one
\* write has been issued, without a sha, and the call ends as that write ends, Done
\* with its body or Failed with its error.
C15_PreReadFailureSwallowed ==
    (Len(ReadAnswers) = 1 /\ Throws(ReadAnswers[1].resp) /\ fpc # "Read") =>
        /\ Len(Reads) = 1
        /\ Len(Writes) = 1
        /\ "sha" \notin DOMAIN Writes[1].body
        /\ fpc \in {"Write", "Done", "Failed"}
        /\ FileFinished =>
              /\ Len(WriteAnswers) = 1
              /\ fpc = "Done" <=> WriteAnswers[1].resp.kind = "ok"
              /\ fpc = "Done" => fresult.value = WriteAnswers[1].resp.body
              /\ fpc = "Failed" =>
                    /\ fresult.step = "Write"
                    /\ fresult.error = ErrorOf(WriteAnswers[1].resp)
                    /\ fresult.status = WriteAnswers[1].resp.status

C15_Witness ==
    /\ fpc = "Done"
    /\ Len(ReadAnswers) = 1
    /\ ReadAnswers[1].resp.status = "ServerError"
    /\ repoFile.sha = "s2"

\* C16 as stated: every write carries the caller's sha unchanged when a sha argument
\* was passed; otherwise the sha of the pre-read's single-file record; and no sha field
\* when the pre-read returned a listing or failed.
C16_ShaArgumentCarried ==
    \A i \in 1..Len(Writes) :
        LET body == Writes[i].body IN
        IF "sha" \in DOMAIN fargs
        THEN "sha" \in DOMAIN body /\ body.sha = fargs.sha
        ELSE IF ~Throws(ReadAnswers[1].resp) /\ ~ReadAnswers[1].resp.body.array
        THEN "sha" \in DOMAIN body /\ body.sha = ReadAnswers[1].resp.body.sha
        ELSE "sha" \notin DOMAIN body

\* C16: every write carries the caller's sha unchanged when a non-empty sha was passed;
\* otherwise (none, or the empty string) the sha of the pre-read's single-file record;
\* and no sha field when the pre-read returned a listing or failed.
C16_ShaWhenKnown ==
    \A i \in 1..Len(Writes) :
        LET body == Writes[i].body IN
        IF ~Falsy(ArgSha)
        THEN "sha" \in DOMAIN body /\ body.sha = fargs.sha /\ Reads = << >>
        ELSE /\ Len(ReadAnswers) = 1
             /\ IF ~Throws(ReadAnswers[1].resp) /\ ~ReadAnswers[1].resp.body.array
                THEN "sha" \in DOMAIN body /\ body.sha = ReadAnswers[1].resp.body.sha
                ELSE "sha" \notin DOMAIN body

C16_Witness ==
    /\ Len(Writes) = 1
    /\ ArgSha = Undefined
    /\ ReadAnswers[1].resp.kind = "ok"
    /\ "sha" \in DOMAIN Writes[1].body
    /\ Writes[1].body.sha = "s1"
    /\ fpc = "Done"

\* C17: the file exists, no sha is known and the pre-read fails: the write goes out
\* without a sha, the remote does not accept it (Conflict, unless the transport failed
\* the write itself), the call fails with that error, and the file keeps its content
\* and its version token.
C17_FalseNegativeConflict ==
    /\ [][(FileOutstanding /\ IsWrite(freq) /\ Len(ReadAnswers) = 1
             /\ Throws(ReadAnswers[1].resp) /\ repoFile.kind = "file"
             /\ fresp'.kind # "none") =>
            /\ "sha" \notin DOMAIN freq.body
            /\ fresp'.kind = "error"
            /\ fresp'.status \in {"Conflict", "ServerError"}
            /\ repoFile' = repoFile]_vars
    /\ []((Len(ReadAnswers) = 1 /\ Throws(ReadAnswers[1].resp) /\ fpc # "Read") =>
            /\ Len(Writes) = 1
            /\ "sha" \notin DOMAIN Writes[1].body
            /\ (FileFinished /\ WriteAnswers[1].resp.kind = "error") =>
                  /\ fpc = "Failed"
                  /\ fresult.error = "RemoteError"
                  /\ fresult.status = WriteAnswers[1].resp.status)

C17_Witness ==
    /\ fpc = "Failed"
    /\ repoFile = FileEntry("s1", EncodedContent(<<"X">>))
    /\ Len(ReadAnswers) = 1
    /\ ReadAnswers[1].resp.kind = "malformed"
    /\ fresult.status = "Conflict"

(* ------------------------ retried and failed pushes ------------------- *)

\* push q is the retry of push p, which aborted after its reference read
RetryOf(p, q) ==
    /\ q = p + 1
    /\ pc[p] = "Failed"
    /\ result[p].step \in {"BuildTree", "BuildCommit", "UpdateRef"}
    /\ pc[q] = "Done"

\* the branch points at the retry's commit, whose single parent is `head` and whose tree
\* is the tree of `head` with the edits laid over it
RetriedOnto(q, head) ==
    /\ refs[args[q].branch] = created[q]
    /\ objects[created[q]].parents = <<head>>
    /\ BuiltTree(q) \in Overlay(EntriesOf(head), TreeEntries(args[q].files))

\* C18 as stated: after a push aborted at BuildTree, BuildCommit or UpdateRef, the same
\* push run again with no other writer leaves the branch at a commit whose single
\* parent is the head the aborted attempt read and whose tree is that head's tree with
\* the edits; neither the commit nor the tree the aborted attempt created is reachable
\* from the branch.
C18_RetryFromOriginalHead ==
    \A p, q \in Pushes :
        (RetryOf(p, q) /\ clock = updAt[q]) =>
            /\ RetriedOnto(q, headRead[p])
            /\ created[p] \notin Ancestors(refs[args[q].branch])
            /\ \A c \in Ancestors(refs[args[q].branch]) : objects[c].tree # tree[p].sha

\* C18: after a push aborted at BuildTree, BuildCommit or UpdateRef without its
\* reference update having been applied, the same push run again with no other writer
\* leaves the branch at a commit whose single parent is the head the aborted attempt
\* read and whose tree is that head's tree with the edits; the aborted attempt's commit
\* is not reachable from the branch, and its tree, when it is the same snapshot, is the
\* very tree of the retry's commit.  An attempt that aborted at UpdateRef on the answer
\* to an applied update has moved the branch to its commit, and the retry builds on it.
C18_RetryFromHeadLeft ==
    \A p, q \in Pushes :
        (RetryOf(p, q) /\ clock = updAt[q]) =>
            IF updAt[p] = 0
            THEN /\ RetriedOnto(q, headRead[p])
                 /\ created[p] \notin Ancestors(refs[args[q].branch])
                 /\ (tree[p].sha # NoSha /\ EntriesOf(tree[p].sha) = BuiltTree(q)) =>
                       objects[created[q]].tree = tree[p].sha
            ELSE /\ result[p].step = "UpdateRef"
                 /\ result[p].error = "ValidationError"
                 /\ RetriedOnto(q, created[p])
                 /\ objects[created[p]].parents = <<headRead[p]>>

C18_Witness ==
    \E p, q \in Pushes :
        /\ RetryOf(p, q)
        /\ result[p].step = "UpdateRef"
        /\ updAt[p] = 0
        /\ created[p] # NoSha
        /\ Len(args[q].files) = MaxFiles
        /\ refs["main"] = created[q]

\* C20 as stated: a push that ended by raising an error, whatever the error, has not
\* moved the branch reference.
C20_FailedPushMovedNothing ==
    \A p \in Pushes : pc[p] = "Failed" => updAt[p] = 0

\* C20: a push that ended by raising an error has not moved the branch reference,
\* except when the error is the validation failure of the answer to its UpdateRef:
\* that update was applied, and the branch was moved to the push's commit.
C20_FailedBeforeUpdateMovedNothing ==
    \A p \in Pushes :
        /\ pc[p] = "Failed" =>
              (updAt[p] > 0 <=>
                 (result[p].step = "UpdateRef" /\ result[p].error = "ValidationError"))
        /\ (updAt[p] > 0 /\ clock = updAt[p]) => refs[args[p].branch] = created[p]

C20_Witness ==
    \E p, q \in Pushes :
        /\ pc[p] = "Failed"
        /\ result[p].step = "UpdateRef"
        /\ updAt[p] > 0
        /\ refs["main"] = created[p]
        /\ pc[q] = "Failed"
        /\ result[q].step = "UpdateRef"
        /\ updAt[q] = 0

(* -------------------- properties of decodeHTMLEntities ---------------- *)

\* one of the six entities of the table stands at position i of s
EntityAt(s, i) ==
    {e \in DOMAIN entities : i + Len(e) - 1 <= Len(s) /\ SubSeq(s, i, i + Len(e) - 1) = e}

\* s with every occurrence of an entity of the table replaced by its character, found by
\* comparing s with the six entities position by position
RECURSIVE Unescaped(_, _)
Unescaped(s, i) ==
    IF i > Len(s) THEN << >>
    ELSE IF EntityAt(s, i) = {} THEN <<s[i]>> \o Unescaped(s, i + 1)
    ELSE LET e == CHOOSE x \in EntityAt(s, i) : TRUE IN
         <<entities[e]>> \o Unescaped(s, i + Len(e))

\* C19: decodeHTMLEntities returns its argument unchanged when none of the six
\* recognized entities occurs in it, entities it does not know such as &nbsp; included,
\* and in general returns the argument with every occurrence of a recognized entity
\* replaced by its character and nothing else changed.
C19_DecodeRecognizedOnly ==
    decoded.applied =>
        /\ (\A i \in 1..Len(str) : EntityAt(str, i) = {}) => decoded.value = str
        /\ decoded.value = Unescaped(str, 1)

C19_Witness ==
    /\ decoded.applied
    /\ str = <<"&", "n", "b", "s", "p", ";">> \o <<"&", "a", "m", "p", ";">>
                \o <<"&", "#", "x", "2", "7", ";">>
    /\ decoded.value = <<"&", "n", "b", "s", "p", ";", "&", "'">>

(* ------------------------- a push with no edits ----------------------- *)

\* C21: a push with an empty files array is not a no-op: its tree call carries an empty
\* entry list on base_tree = the head read, its commit call parents = [head read], its
\* reference update is forced and names the new commit; once Done it has made all four
\* calls in order, the commit is a new object whose tree has the contents of the tree
\* of the head read, and the branch was moved to that commit.
C21_EmptyPushIsNotNoOp ==
    \A p \in Pushes :
        (pc[p] # "idle" /\ args[p].files = << >>) =>
            /\ (req[p].method = "POST" /\ req[p].url[1] = "git/trees") =>
                  /\ req[p].body.tree = << >>
                  /\ req[p].body.base_tree = headRead[p]
            /\ (req[p].method = "POST" /\ req[p].url[1] = "git/commits") =>
                  req[p].body.parents = <<headRead[p]>>
            /\ req[p].method = "PATCH" =>
                  /\ req[p].body.force = TRUE
                  /\ req[p].body.sha = created[p]
            /\ pc[p] = "Done" =>
                  /\ Issued(p) = Pipeline
                  /\ ServedCalls(p) = RemoteCalls
                  /\ IsCommit(created[p])
                  /\ created[p] > C0
                  /\ created[p] # headRead[p]
                  /\ objects[created[p]].parents = <<headRead[p]>>
                  /\ BuiltTree(p) = HeadTree(p)
                  /\ updAt[p] > 0
                  /\ clock = updAt[p] => refs[args[p].branch] = created[p]

C21_Witness ==
    \E p \in Pushes :
        /\ pc[p] = "Done"
        /\ args[p].files = << >>
        /\ headRead[p] = C0
        /\ refs["main"] = created[p]
        /\ refs["main"] # C0
        /\ EntriesOf(refs["main"]) = Tree0

====
